---- MODULE Spec2Model ----
(***************************************************************************)
(* Model of retrieve-bankmail.py: one run of                               *)
(* login_and_scrape_bank_messages against the Bankwest portal, the keyring *)
(* and the operator's terminal.  The program is a single sequential        *)
(* coroutine; pc is its position.                                          *)
(***************************************************************************)
EXTENDS Integers, Sequences, FiniteSets, TLC

VARIABLES
    pc,             \* position of the coroutine in the source
    limit,          \* args.limit (NoLimit when -l is not given)
    keyring,        \* the keyring store of service 'retrieve-bankmail'
    env,            \* os.getenv('PAN')
    pan, pw,        \* locals of get_credentials
    password,       \* local of get_password
    creds,          \* local of login: the Credential returned
    issued,         \* history: the Credentials get_credentials returned
    session,        \* state of the portal session held by the page
    attempts,       \* number of clicks on the login button
    timeouts,       \* number of waits for .logoutButton that timed out
    unawaited,      \* coroutine objects created and never awaited
    navs,           \* history: the addresses page.goto was called with
    table,          \* rows of .MasterTable_default the mail page rendered
    messages,       \* local of the orchestrator: the retained row handles
    bank_messages,  \* local of the orchestrator: the BankMessage list
    cur,            \* index of the loop variable in the running for loop
    fetches,        \* history: indices whose get_message_content began
    emitted,        \* the output stream: one entry per message.log()
    notice,         \* 'finished getting mail' was logged
    browser,        \* the chromium browser with its context and page
    err,            \* the exception that is propagating, NoErr if none
    phase,          \* the component of the workflow that is running
    probe           \* the object under test of the unit specifications

vars == <<pc, limit, keyring, env, pan, pw, password, creds, issued, session,
          attempts, timeouts, unawaited, navs, table, messages, bank_messages,
          cur, fetches, emitted, notice, browser, err, phase, probe>>

\* the variables of the run
runVars == <<pc, limit, keyring, env, pan, pw, password, creds, issued,
             session, attempts, timeouts, unawaited, navs, table, messages,
             bank_messages, cur, fetches, emitted, notice, browser, err,
             phase>>

(***************************************************************************)
(* Bounds of the model.                                                    *)
(***************************************************************************)
MaxRows == 3
MaxWrites == 2      \* calls of set_content on one record
MaxChunks == 3      \* pieces a raw message text is put together from

(***************************************************************************)
(* Values.                                                                 *)
(***************************************************************************)
None == "<None>"
NoLimit == <<>>          \* args.limit is None; a given limit l is <<l>>
NoCreds == [pan |-> None, password |-> None]
NoErr == "<no error>"
NoProbe == [kind |-> "none"]

LOGIN_PAGE == <<"LOGIN_PAGE">>
MAIL_PAGE == <<"MAIL_PAGE">>
MESSAGE_PAGE(id) == <<"MESSAGE_PAGE", id>>

UN == "PAN"
UnKey == <<UN>>            \* the keyring entry named UN
PwKey(p) == <<UN, p>>      \* the keyring entry named f'{UN}_{pan}'

ThePan == "4001"
GoodPw == "good"
BadPw == "bad"

PanInputs == {"", ThePan}
PwInputs == {"", GoodPw, BadPw}
Keys == {UnKey} \cup {PwKey(p) : p \in PanInputs}

\* Python truthiness of an Optional[str]: `not x`
Falsy_NoneOnly(x) == x = None
Falsy(x) == x = None \/ x = ""

Min(a, b) == IF a < b THEN a ELSE b
Max(a, b) == IF a > b THEN a ELSE b

(***************************************************************************)
(* get_password: confirm.strip().lower()[:1] == 'y'                        *)
(***************************************************************************)
RECURSIVE LStrip(_)
LStrip(s) == IF s # <<>> /\ Head(s) = " " THEN LStrip(Tail(s)) ELSE s

RECURSIVE RStrip(_)
RStrip(s) == IF s # <<>> /\ s[Len(s)] = " "
             THEN RStrip(SubSeq(s, 1, Len(s) - 1)) ELSE s

Strip(s) == RStrip(LStrip(s))

LowerChar(c) == IF c = "Y" THEN "y" ELSE IF c = "N" THEN "n"
                ELSE IF c = "E" THEN "e" ELSE IF c = "S" THEN "s" ELSE c

Lower(s) == [i \in 1..Len(s) |-> LowerChar(s[i])]

Confirmed(s) ==
    LET t == Lower(Strip(s)) IN SubSeq(t, 1, Min(1, Len(t))) = <<"y">>

Confirms == { <<"y">>, <<" ", "Y", "e", "s", " ">>, <<"n">>, <<>>,
              <<"o", "y">>, <<" ">> }

(***************************************************************************)
(* The portal.                                                             *)
(***************************************************************************)
\* the portal shows .logoutButton only after a correct login
LoginOK(c) == c.pan = ThePan /\ c.password = GoodPw

\* page.wait_for_selector: the marker appears, or the default timeout expires
BoundedWait_NoTimeout(appears) == IF appears THEN "ok" ELSE "blocked"
BoundedWait(appears) == IF appears THEN "ok" ELSE "TimeoutError"

\* kr.delete_password of an entry: a missing entry raises in the storing
\* backends and is ignored by others
DeleteOutcomes(kr, k) ==
    IF kr[k] = None THEN {"ok", "PasswordDeleteError"} ELSE {"ok"}

(***************************************************************************)
(* Rows of the inbox table.  A row is what the portal rendered: its        *)
(* message number and which of the elements the extraction reads exist.    *)
(***************************************************************************)
RowShapes == {"ok", "noSubject", "twoCells", "fourCells", "noSenderDiv",
              "noIdInput"}

Row(n, shape) ==
    [n         |-> n,
     subjectEl |-> shape # "noSubject",
     cells     |-> IF shape = "twoCells" THEN 2
                   ELSE IF shape = "fourCells" THEN 4 ELSE 5,
     senderEl  |-> shape # "noSenderDiv",
     idEl      |-> shape # "noIdInput"]

\* the portal lists the newest message first
Tables ==
    UNION { { [i \in 1..len |-> Row(len + 1 - i, f[i])] :
                f \in [1..len -> RowShapes] } : len \in 0..MaxRows }

Limits == {NoLimit} \cup { <<l>> : l \in -1 .. MaxRows + 1 }

\* messages[0:args.limit]
Slice_DropsFirst(s, l) ==
    IF l = NoLimit THEN s
    ELSE SubSeq(s, 2, IF l[1] < 0 THEN Max(Len(s) + l[1], 0)
                      ELSE Min(l[1], Len(s)))
Slice(s, l) ==
    IF l = NoLimit THEN s
    ELSE SubSeq(s, 1, IF l[1] < 0 THEN Max(Len(s) + l[1], 0)
                      ELSE Min(l[1], Len(s)))

\* the exception the body of the for loop over messages raises on a row
RowFault_IgnoresNoId(row) ==
    IF ~row.subjectEl THEN "AttributeError"
    ELSE IF row.cells < 5 THEN "IndexError"
    ELSE IF ~row.senderEl THEN "AttributeError"
    ELSE NoErr
RowFault(row) ==
    IF ~row.subjectEl THEN "AttributeError"      \* subject_element is None
    ELSE IF row.cells < 3 THEN "IndexError"      \* elements[2]
    ELSE IF row.cells < 5 THEN "IndexError"      \* elements[4]
    ELSE IF ~row.senderEl THEN "AttributeError"  \* sender_element is None
    ELSE IF ~row.idEl THEN "AttributeError"      \* id_element is None
    ELSE NoErr

(***************************************************************************)
(* BankMessage.  __init__ sets four fields and leaves content unset.       *)
(***************************************************************************)
BankMessage(row) ==
    [id      |-> <<"id", row.n>>,
     subject |-> <<"subject", row.n>>,
     sender  |-> <<"sender", row.n>>,
     date    |-> <<"date", row.n>>]

HasContent(m) == "content" \in DOMAIN m

set_content_Dropped(m, text) == m
set_content_KeepsFirst(m, text) ==
    IF "content" \in DOMAIN m THEN m
    ELSE [f \in DOMAIN m \cup {"content"} |->
            IF f = "content" THEN text ELSE m[f]]
set_content(m, text) ==
    [f \in DOMAIN m \cup {"content"} |->
        IF f = "content" THEN text ELSE m[f]]

(***************************************************************************)
(* get_message_content: message_content.replace('<br>', '\n')              *)
(***************************************************************************)
BR == <<"<", "b", "r", ">">>
NL == "\n"

\* the markup removed instead of replaced
RECURSIVE Replace_Deletes(_)
Replace_Deletes(s) ==
    IF s = <<>> THEN <<>>
    ELSE IF Len(s) >= 4 /\ SubSeq(s, 1, 4) = BR
         THEN Replace_Deletes(SubSeq(s, 5, Len(s)))
         ELSE <<Head(s)>> \o Replace_Deletes(Tail(s))

RECURSIVE Replace(_)
Replace(s) ==
    IF s = <<>> THEN <<>>
    ELSE IF Len(s) >= 4 /\ SubSeq(s, 1, 4) = BR
         THEN <<NL>> \o Replace(SubSeq(s, 5, Len(s)))
         ELSE <<Head(s)>> \o Replace(Tail(s))

\* the texts the message pages hold
Bodies == { <<"h", "i">>, <<"a">> \o BR \o <<"b">>, <<"<", "b">> \o BR }

\* message.log(): one entry on the output stream
Emit_Prepend(out, m) == <<m>> \o out
Emit(out, m) == Append(out, m)

\* `async with async_playwright()`: leaving the block stops playwright and
\* with it the browser, its context and its page
ReleaseOnExit_OnlyOnSuccess(b) == b
ReleaseOnExit(b) == "closed"

(***************************************************************************)
(* Initial state: the browser, its context and its page exist (lines       *)
(* 197-200) and login is about to run.                                     *)
(***************************************************************************)
Init ==
    /\ pc = "login_goto"
    /\ limit \in Limits
    /\ keyring \in { k \in [Keys -> {None, GoodPw, BadPw, ThePan}] :
                       /\ k[UnKey] \in {None, ThePan}
                       /\ k[PwKey(ThePan)] \in {None, GoodPw, BadPw}
                       /\ k[PwKey("")] \in {None, BadPw} }
    /\ env \in {None, ThePan}
    /\ pan = None /\ pw = None /\ password = None
    /\ creds = NoCreds
    /\ issued = <<>>
    /\ session = "Anonymous"
    /\ attempts = 0
    /\ timeouts = 0
    /\ unawaited = 0
    /\ navs = <<>>
    /\ table = <<>>
    /\ messages = <<>>
    /\ bank_messages = <<>>
    /\ cur = 0
    /\ fetches = <<>>
    /\ emitted = <<>>
    /\ notice = FALSE
    /\ browser = "open"
    /\ err = NoErr
    /\ phase = "login"
    /\ probe = NoProbe

\* an exception leaves the coroutine's frames: nothing else changes
Raise(e) ==
    /\ pc' = "raised"
    /\ err' = e

(***************************************************************************)
(* login, lines 143-166                                                    *)
(***************************************************************************)
\* await page.goto(LOGIN_PAGE)
LoginGoto ==
    /\ pc = "login_goto"
    /\ navs' = Append(navs, LOGIN_PAGE)
    /\ \/ pc' = "get_credentials" /\ err' = err
       \/ Raise("Error")
    /\ UNCHANGED <<limit, keyring, env, pan, pw, password, creds, issued,
                   session, attempts, timeouts, unawaited, table, messages,
                   bank_messages, cur, fetches, emitted, notice, browser,
                   phase, probe>>

\* get_credentials, lines 115-126: the PAN from the keyring, else from the
\* environment, else from the operator; then the password from the keyring
GetCredentials ==
    /\ pc = "get_credentials"
    /\ \E typed \in PanInputs :
         LET p1 == keyring[UnKey]
             p2 == IF Falsy(p1) THEN env ELSE p1
             p3 == IF Falsy(p2) THEN typed ELSE p2
             w  == keyring[PwKey(p3)]
         IN  /\ pan' = p3
             /\ pw' = w
             /\ pc' = IF Falsy(w) THEN "getpass" ELSE "check_creds"
    /\ UNCHANGED <<limit, keyring, env, password, creds, issued, session,
                   attempts, timeouts, unawaited, navs, table, messages,
                   bank_messages, cur, fetches, emitted, notice, browser, err,
                   phase, probe>>

\* kr.set_password(SERVICE_NAME, key, value)
set_password_Skipped(kr, k, v) == kr
set_password(kr, k, v) == [kr EXCEPT ![k] = v]

\* get_password, line 107
GetPass ==
    /\ pc = "getpass"
    /\ \E typed \in PwInputs : password' = typed
    /\ pc' = "confirm"
    /\ UNCHANGED <<limit, keyring, env, pan, pw, creds, issued, session,
                   attempts, timeouts, unawaited, navs, table, messages,
                   bank_messages, cur, fetches, emitted, notice, browser, err,
                   phase, probe>>

\* get_password, lines 108-110, then kr.set_password, line 131
ConfirmYes ==
    /\ pc = "confirm"
    /\ \E c \in Confirms : Confirmed(c)
    /\ pw' = password
    /\ keyring' = set_password(keyring, PwKey(pan), password)
    /\ pc' = "check_creds"
    /\ UNCHANGED <<limit, env, pan, password, creds, issued, session,
                   attempts, timeouts, unawaited, navs, table, messages,
                   bank_messages, cur, fetches, emitted, notice, browser, err,
                   phase, probe>>

\* get_password, lines 108-109 and back to line 106
ConfirmNo ==
    /\ pc = "confirm"
    /\ \E c \in Confirms : ~Confirmed(c)
    /\ pc' = "getpass"
    /\ UNCHANGED <<limit, keyring, env, pan, pw, password, creds, issued,
                   session, attempts, timeouts, unawaited, navs, table,
                   messages, bank_messages, cur, fetches, emitted, notice,
                   browser, err, phase, probe>>

\* get_credentials, lines 133-137
CheckCredentials ==
    /\ pc = "check_creds"
    /\ IF Falsy(pan) \/ Falsy(pw)
       THEN /\ Raise("SystemExit")
            /\ UNCHANGED <<creds, issued>>
       ELSE /\ creds' = [pan |-> pan, password |-> pw]
            /\ issued' = Append(issued, creds')
            /\ pc' = "submit"
            /\ err' = err
    /\ UNCHANGED <<limit, keyring, env, pan, pw, password, session, attempts,
                   timeouts, unawaited, navs, table, messages, bank_messages,
                   cur, fetches, emitted, notice, browser, phase, probe>>

\* lines 152-158: fill the two inputs and click the button; each of the
\* three waits for its element and raises TimeoutError outside the try
Submit ==
    /\ pc = "submit"
    /\ \/ /\ attempts' = attempts + 1
          /\ session' = "Authenticating"
          /\ pc' = "wait_login"
          /\ err' = err
       \/ /\ Raise("TimeoutError")
          /\ UNCHANGED <<attempts, session>>
    /\ UNCHANGED <<limit, keyring, env, pan, pw, password, creds, issued,
                   timeouts, unawaited, navs, table, messages, bank_messages,
                   cur, fetches, emitted, notice, browser, phase, probe>>

\* line 163 finds .logoutButton: login returns to line 204
LoginWaitOk ==
    /\ pc = "wait_login"
    /\ \E appears \in {b \in BOOLEAN : b => LoginOK(creds)} :
         BoundedWait(appears) = "ok"
    /\ session' = "Authenticated"
    /\ pc' = "mail_goto"
    /\ phase' = "inbox"
    /\ UNCHANGED <<limit, keyring, env, pan, pw, password, creds, issued,
                   attempts, timeouts, unawaited, navs, table, messages,
                   bank_messages, cur, fetches, emitted, notice, browser, err,
                   probe>>

\* reset_credentials with the two deletions swapped
reset_credentials_PanFirst(kr, c) ==
    { r \in [kr : {kr, [kr EXCEPT ![UnKey] = None],
                   [kr EXCEPT ![PwKey(c.pan)] = None, ![UnKey] = None]},
             err : {NoErr, "PasswordDeleteError"}] :
        \E o1 \in DeleteOutcomes(kr, UnKey) :
          IF o1 # "ok"
          THEN r.kr = kr /\ r.err = o1
          ELSE LET k1 == [kr EXCEPT ![UnKey] = None]
               IN \E o2 \in DeleteOutcomes(k1, PwKey(c.pan)) :
                    IF o2 # "ok"
                    THEN r.kr = k1 /\ r.err = o2
                    ELSE /\ r.kr = [k1 EXCEPT ![PwKey(c.pan)] = None]
                         /\ r.err = NoErr }

\* reset_credentials, lines 140-141: the two deletions in order; the
\* result is the keyring left behind and the exception raised, if any
reset_credentials(kr, c) ==
    { r \in [kr : {kr, [kr EXCEPT ![PwKey(c.pan)] = None],
                   [kr EXCEPT ![PwKey(c.pan)] = None, ![UnKey] = None]},
             err : {NoErr, "PasswordDeleteError"}] :
        \E o1 \in DeleteOutcomes(kr, PwKey(c.pan)) :
          IF o1 # "ok"
          THEN r.kr = kr /\ r.err = o1
          ELSE LET k1 == [kr EXCEPT ![PwKey(c.pan)] = None]
               IN \E o2 \in DeleteOutcomes(k1, UnKey) :
                    IF o2 # "ok"
                    THEN r.kr = k1 /\ r.err = o2
                    ELSE r.kr = [k1 EXCEPT ![UnKey] = None] /\ r.err = NoErr }

\* line 163 raises TimeoutError; lines 164-166: reset_credentials, then
\* login(page) builds a coroutine nobody awaits and login returns
LoginWaitTimeout ==
    /\ pc = "wait_login"
    /\ \E appears \in {b \in BOOLEAN : b => LoginOK(creds)} :
         BoundedWait(appears) = "TimeoutError"
    /\ session' = "Failed"
    /\ timeouts' = timeouts + 1
    /\ \E r \in reset_credentials(keyring, creds) :
         /\ keyring' = r.kr
         /\ IF r.err # NoErr
            THEN /\ Raise(r.err)
                 /\ UNCHANGED <<unawaited, phase>>
            ELSE /\ unawaited' = unawaited + 1
                 /\ pc' = "mail_goto"
                 /\ phase' = "inbox"
                 /\ err' = err
    /\ UNCHANGED <<limit, env, pan, pw, password, creds, issued, attempts,
                   navs, table, messages, bank_messages, cur, fetches,
                   emitted, notice, browser, probe>>

(***************************************************************************)
(* go_to_mail_page, lines 168-175                                          *)
(***************************************************************************)
\* await page.goto(MAIL_PAGE)
MailGoto ==
    /\ pc = "mail_goto"
    /\ navs' = Append(navs, MAIL_PAGE)
    /\ \/ pc' = "mail_wait" /\ err' = err
       \/ Raise("Error")
    /\ UNCHANGED <<limit, keyring, env, pan, pw, password, creds, issued,
                   session, attempts, timeouts, unawaited, table, messages,
                   bank_messages, cur, fetches, emitted, notice, browser,
                   phase, probe>>

\* the TimeoutError of line 175 is caught nowhere: it leaves the coroutine
InboxTimeoutPc_Retry == "mail_goto"
InboxTimeoutPc == "raised"

\* await page.wait_for_selector('#leftColumn'); the portal serves the inbox
\* to an authenticated session only
MailWait ==
    /\ pc = "mail_wait"
    /\ \E appears \in {b \in BOOLEAN : b => session = "Authenticated"} :
         LET r == BoundedWait(appears)
         IN  \/ /\ r = "ok"
                /\ \E t \in Tables : table' = t
                /\ pc' = "query_rows"
                /\ phase' = "enumerate"
                /\ err' = err
             \/ /\ r = "TimeoutError"
                /\ pc' = InboxTimeoutPc
                /\ err' = r
                /\ UNCHANGED <<table, phase>>
    /\ UNCHANGED <<limit, keyring, env, pan, pw, password, creds, issued,
                   session, attempts, timeouts, unawaited, navs, messages,
                   bank_messages, cur, fetches, emitted, notice, browser,
                   probe>>

(***************************************************************************)
(* login_and_scrape_bank_messages, lines 209-243                           *)
(***************************************************************************)
\* where the orchestrator goes when the loop over messages is exhausted:
\* into the loop over bank_messages, or past it when that list is empty
AfterRows_SkipsFetch(bms) == "finish"
AfterRows(bms) == IF bms = <<>> THEN "finish" ELSE "fetch_goto"
PhaseAt(p) == IF p = "finish" THEN "report"
              ELSE IF p = "fetch_goto" THEN "fetch" ELSE "enumerate"

\* where the loop over messages goes after row i of n: to the next row,
\* and out of the loop only after the last one
ExtractNext_Lazy(i, n, bms) == "fetch_goto"
ExtractNext(i, n, bms) == IF i < n THEN "extract" ELSE AfterRows(bms)

\* lines 209-216: query the rows and apply the limit
QueryRows ==
    /\ pc = "query_rows"
    /\ messages' = Slice(table, limit)
    /\ bank_messages' = <<>>
    /\ cur' = 1
    /\ pc' = IF messages' = <<>> THEN AfterRows(<<>>) ELSE "extract"
    /\ phase' = PhaseAt(pc')
    /\ UNCHANGED <<limit, keyring, env, pan, pw, password, creds, issued,
                   session, attempts, timeouts, unawaited, navs, table,
                   fetches, emitted, notice, browser, err, probe>>

\* lines 218-232: one iteration of the loop over messages
ExtractRow ==
    /\ pc = "extract"
    /\ LET row == messages[cur]
           fault == RowFault(row)
       IN  IF fault # NoErr
           THEN /\ Raise(fault)
                /\ UNCHANGED <<bank_messages, cur, phase>>
           ELSE /\ bank_messages' = Append(bank_messages, BankMessage(row))
                /\ cur' = IF cur < Len(messages) THEN cur + 1 ELSE 1
                /\ pc' = ExtractNext(cur, Len(messages), bank_messages')
                /\ phase' = PhaseAt(pc')
                /\ err' = err
    /\ UNCHANGED <<limit, keyring, env, pan, pw, password, creds, issued,
                   session, attempts, timeouts, unawaited, navs, table,
                   messages, fetches, emitted, notice, browser, probe>>

\* get_message_content, lines 179-181
FetchGoto ==
    /\ pc = "fetch_goto"
    /\ navs' = Append(navs, MESSAGE_PAGE(bank_messages[cur].id))
    /\ fetches' = Append(fetches, cur)
    /\ \/ pc' = "fetch_wait" /\ err' = err
       \/ Raise("Error")
    /\ UNCHANGED <<limit, keyring, env, pan, pw, password, creds, issued,
                   session, attempts, timeouts, unawaited, table, messages,
                   bank_messages, cur, emitted, notice, browser, phase,
                   probe>>

\* the TimeoutError of line 187 is caught nowhere: it leaves the coroutine
BodyTimeoutPc_Retry == "fetch_goto"
BodyTimeoutPc == "raised"

\* get_message_content, lines 183-192, and message.set_content, line 237
FetchWait ==
    /\ pc = "fetch_wait"
    /\ \E appears \in BOOLEAN :
         LET r == BoundedWait(appears)
         IN  \/ /\ r = "ok"
                /\ \E body \in Bodies :
                     bank_messages' =
                       [bank_messages EXCEPT
                          ![cur] = set_content(@, Replace(body))]
                /\ pc' = "log"
                /\ err' = err
             \/ /\ r = "TimeoutError"
                /\ pc' = BodyTimeoutPc
                /\ err' = r
                /\ UNCHANGED bank_messages
    /\ UNCHANGED <<limit, keyring, env, pan, pw, password, creds, issued,
                   session, attempts, timeouts, unawaited, navs, table,
                   messages, cur, fetches, emitted, notice, browser, phase,
                   probe>>

\* message.log(), line 238 (lines 42-48): the entry goes to the output;
\* reading a content that was never set raises AttributeError
LogMessage ==
    /\ pc = "log"
    /\ emitted' = Emit(emitted, bank_messages[cur])
    /\ IF ~HasContent(bank_messages[cur])
       THEN /\ Raise("AttributeError")
            /\ UNCHANGED <<cur, phase>>
       ELSE /\ cur' = IF cur < Len(bank_messages) THEN cur + 1 ELSE cur
            /\ pc' = IF cur < Len(bank_messages) THEN "fetch_goto"
                     ELSE "finish"
            /\ phase' = PhaseAt(pc')
            /\ err' = err
    /\ UNCHANGED <<limit, keyring, env, pan, pw, password, creds, issued,
                   session, attempts, timeouts, unawaited, navs, table,
                   messages, bank_messages, fetches, notice, browser, probe>>

\* lines 240-243: the completion notice and browser.close()
Finish ==
    /\ pc = "finish"
    /\ notice' = TRUE
    /\ browser' = "closed"
    /\ pc' = "exit"
    /\ phase' = "release"
    /\ UNCHANGED <<limit, keyring, env, pan, pw, password, creds, issued,
                   session, attempts, timeouts, unawaited, navs, table,
                   messages, bank_messages, cur, fetches, emitted, err,
                   probe>>

\* line 197: the `async with` block is left, by falling off its end or by
\* an exception passing through it, and the process ends
AsyncWithExit ==
    /\ pc \in {"exit", "raised"}
    /\ browser' = ReleaseOnExit(browser)
    /\ pc' = "ended"
    /\ UNCHANGED <<limit, keyring, env, pan, pw, password, creds, issued,
                   session, attempts, timeouts, unawaited, navs, table,
                   messages, bank_messages, cur, fetches, emitted, notice,
                   err, phase, probe>>

Next ==
    \/ LoginGoto
    \/ GetCredentials
    \/ GetPass
    \/ ConfirmYes
    \/ ConfirmNo
    \/ CheckCredentials
    \/ Submit
    \/ LoginWaitOk
    \/ LoginWaitTimeout
    \/ MailGoto
    \/ MailWait
    \/ QueryRows
    \/ ExtractRow
    \/ FetchGoto
    \/ FetchWait
    \/ LogMessage
    \/ Finish
    \/ AsyncWithExit

Spec == Init /\ [][Next]_vars

\* the coroutine is always scheduled again: asyncio.run drives it to its end
LiveSpec == Spec /\ WF_vars(Next)

\* the two ways a run ends
Completed == pc = "ended" /\ err = NoErr
Aborted == pc = "ended" /\ err # NoErr

(***************************************************************************)
(* Unit specifications: one BankMessage under repeated set_content, and    *)
(* one raw text under repeated normalisation.  The run does not move.      *)
(***************************************************************************)
RunIdle ==
    /\ pc = "idle"
    /\ limit = NoLimit
    /\ keyring = [k \in Keys |-> None]
    /\ env = None
    /\ pan = None /\ pw = None /\ password = None
    /\ creds = NoCreds
    /\ issued = <<>>
    /\ session = "Anonymous"
    /\ attempts = 0 /\ timeouts = 0 /\ unawaited = 0
    /\ navs = <<>> /\ table = <<>> /\ messages = <<>>
    /\ bank_messages = <<>>
    /\ cur = 0
    /\ fetches = <<>> /\ emitted = <<>>
    /\ notice = FALSE
    /\ browser = "open"
    /\ err = NoErr
    /\ phase = "login"

\* the pieces raw texts are made of, and the texts of up to n pieces
Chunks == { <<"<">>, <<"b">>, <<"r">>, <<">">>, <<NL>>, BR,
            <<"<", "b">>, <<"r", ">">> }

RECURSIVE TextsOf(_)
TextsOf(n) ==
    IF n = 0 THEN { <<>> }
    ELSE LET T == TextsOf(n - 1)
         IN  T \cup { t \o c : t \in T, c \in Chunks }

\* the texts set_content is called with
WriteTexts == { <<>> } \cup Bodies \cup { Replace(b) : b \in Bodies }

\* a BankMessage as __init__ leaves it, lines 31-36
RecordInit ==
    /\ RunIdle
    /\ \E n \in 1..MaxRows :
         probe = [kind   |-> "record",
                  orig   |-> BankMessage(Row(n, "ok")),
                  rec    |-> BankMessage(Row(n, "ok")),
                  writes |-> <<>>]

\* message.set_content(text), lines 38-40
SetContentCall ==
    /\ probe.kind = "record"
    /\ Len(probe.writes) < MaxWrites
    /\ \E t \in WriteTexts :
         probe' = [probe EXCEPT !.rec = set_content(@, t),
                                !.writes = Append(@, t)]
    /\ UNCHANGED runVars

RecordNext == SetContentCall

RecordSpec == RecordInit /\ [][RecordNext]_vars

\* a raw text as inner_text() returns it, line 190
NormInit ==
    /\ RunIdle
    /\ \E t \in TextsOf(MaxChunks) :
         probe = [kind |-> "text", raw |-> t, prev |-> t, out |-> t, n |-> 0]

\* message_content.replace('<br>', '\n'), line 192, applied to the result
\* of the previous application
Normalize ==
    /\ probe.kind = "text"
    /\ probe.n < 2
    /\ probe' = [probe EXCEPT !.prev = probe.out,
                              !.out = Replace(probe.out),
                              !.n = @ + 1]
    /\ UNCHANGED runVars

NormNext == Normalize

NormSpec == NormInit /\ [][NormNext]_vars

(***************************************************************************)
(* Properties.                                                             *)
(***************************************************************************)
Visited(a) == \E i \in 1..Len(navs) : navs[i] = a

\* login has returned to the orchestrator
LoginReturned == phase # "login"

\* C1: when the first secret was wrong, the first wait for the
\* authenticated marker timed out and the secret obtained after the
\* invalidation is correct, login has, by the
\* time it returns, removed the stale secret, performed exactly one retry
\* (a second credential pair obtained and submitted) and authenticated the
\* session.
C1_RetryAuthenticates ==
    (/\ LoginReturned
     /\ timeouts >= 1
     /\ ~LoginOK(issued[1])
     /\ (Len(issued) >= 2 => LoginOK(issued[2])))
    => /\ keyring[PwKey(issued[1].pan)] # issued[1].password
       /\ Len(issued) = 2
       /\ attempts = 2
       /\ session = "Authenticated"

\* C2: a login whose waits all timed out is fatal for the run: the run
\* never gets past login with a failed session, and the login button is
\* clicked at most twice in a run.
C2_FailedLoginIsFatal ==
    /\ attempts <= 2
    /\ (timeouts >= 1 /\ session = "Failed") => ~LoginReturned

\* C3: whenever go_to_mail_page has navigated to the mail-list address,
\* the session is Authenticated.
C3_NavigatorGetsAuthenticated ==
    Visited(MAIL_PAGE) => session = "Authenticated"

\* C4: when the process ends, on completion or on a fatal error of any
\* phase, the browser with its context is closed.
C4_ContextReleased ==
    pc = "ended" => browser = "closed"

C4_Witness ==
    /\ pc = "ended"
    /\ err = "TimeoutError"
    /\ phase = "fetch"
    /\ browser = "closed"

\* C6: when get_credentials exits the process for want of a PAN or a
\* password, no page navigation has happened.
C6_AbortBeforeNetwork ==
    err = "SystemExit" => navs = <<>>

\* the rows loop is exhausted: enumeration has produced its list
EnumDone == phase \in {"fetch", "report", "release"}

\* the four fields of a record are those of the row
FromRow(m, row) ==
    /\ m.id = <<"id", row.n>>
    /\ m.subject = <<"subject", row.n>>
    /\ m.sender = <<"sender", row.n>>
    /\ m.date = <<"date", row.n>>

\* C5: with N rows rendered, enumeration yields N records when no limit is
\* given and min(N, L) records for a limit L >= 0, and record i is built
\* from row i of the rendered table.
C5_EnumerationCount ==
    (EnumDone /\ (limit = NoLimit \/ limit[1] >= 0))
    => /\ Len(bank_messages) =
            IF limit = NoLimit THEN Len(table)
            ELSE Min(Len(table), limit[1])
       /\ \A i \in 1..Len(bank_messages) : FromRow(bank_messages[i], table[i])

C5_Witness ==
    /\ EnumDone
    /\ limit = <<2>>
    /\ Len(table) = 3
    /\ Len(bank_messages) = 2

\* C7: the output is at all times a prefix of the enumerated list, the
\* fetches begin in enumeration order, one per record, and the fetch of a
\* record begins only when every earlier record has been emitted.
C7_SequentialInOrder ==
    /\ Len(emitted) <= Len(bank_messages)
    /\ \A i \in 1..Len(emitted) : emitted[i] = bank_messages[i]
    /\ \A i \in 1..Len(fetches) : fetches[i] = i
    /\ Len(fetches) - 1 <= Len(emitted)
    /\ Len(emitted) <= Len(fetches)
    /\ pc \in {"fetch_wait", "log"} => Len(emitted) = Len(fetches) - 1

C7_Witness ==
    /\ pc = "fetch_wait"
    /\ fetches = <<1, 2, 3>>
    /\ Len(emitted) = 2

\* a row lacks one of the elements the extraction reads: the subject
\* label, the date cell, the sender label (in the fifth cell) or the
\* identifier input
MissingElement(row) ==
    \/ ~row.subjectEl
    \/ row.cells < 3
    \/ row.cells < 5 \/ ~row.senderEl
    \/ ~row.idEl

\* C8: when a retained row lacks a required element the run cannot get
\* past the enumeration: it ends with the exception of the extraction, no
\* record is built for such a row and nothing at all is emitted.
C8_MalformedRowAborts ==
    (\E i \in 1..Len(messages) : MissingElement(messages[i]))
    => /\ pc \in {"extract", "raised", "ended"}
       /\ pc \in {"raised", "ended"} =>
            err \in {"AttributeError", "IndexError"}
       /\ \A j \in 1..Len(bank_messages) : ~MissingElement(messages[j])
       /\ emitted = <<>>
       /\ fetches = <<>>
       /\ ~notice

C8_Witness ==
    /\ pc = "ended"
    /\ err = "AttributeError"
    /\ Len(messages) = 3
    /\ ~messages[2].idEl
    /\ Len(bank_messages) = 1
    /\ emitted = <<>>

\* C10: a record has no content until its fetch has completed; the content
\* is set by the fetch of that record only, before the record is emitted,
\* and a content once set is never changed or removed.
C10_ContentSetOnce ==
    /\ [](\A i \in 1..Len(bank_messages) :
            HasContent(bank_messages[i]) =>
              /\ i <= Len(fetches)
              /\ \/ i < cur
                 \/ i = cur /\ pc \notin {"fetch_goto", "fetch_wait"})
    /\ [](\A i \in 1..Len(emitted) : HasContent(emitted[i]))
    /\ [][\A i \in 1..Len(bank_messages) :
            /\ HasContent(bank_messages[i]) =>
                 /\ i <= Len(bank_messages')
                 /\ bank_messages'[i] = bank_messages[i]
            /\ (/\ ~HasContent(bank_messages[i])
                /\ i <= Len(bank_messages')
                /\ HasContent(bank_messages'[i])) =>
                 /\ pc = "fetch_wait"
                 /\ cur = i
                 /\ Len(emitted) = i - 1]_vars

C10_Witness ==
    /\ Len(emitted) = 2
    /\ HasContent(bank_messages[1]) /\ HasContent(bank_messages[2])
    /\ Len(bank_messages) = 3
    /\ ~HasContent(bank_messages[3])

\* C9 as stated: every run ends.
C9_AlwaysEnds == <>(pc = "ended")

\* C9: every run ends, in completion with the notice or in a fatal error
\* without it, unless the operator declines the password confirmation of
\* get_password for ever.
C9_EndsUnlessDeclining ==
    /\ <>(pc = "ended") \/ <>[](pc \in {"getpass", "confirm"})
    /\ [](pc = "ended" => (notice <=> err = NoErr))

C9_Witness ==
    /\ pc = "ended"
    /\ password # None
    /\ notice

NonEmpty(c) == ~(c.pan = None \/ c.pan = "")
               /\ ~(c.password = None \/ c.password = "")

\* C11: every Credential that get_credentials returns, and so every one
\* filled into the login form, has a non-empty PAN and a non-empty
\* password.
C11_SubmittedNonEmpty ==
    /\ \A i \in 1..Len(issued) : NonEmpty(issued[i])
    /\ (pc \in {"submit", "wait_login"} \/ attempts >= 1) =>
         /\ issued # <<>>
         /\ creds = issued[Len(issued)]
         /\ NonEmpty(creds)

C11_Witness ==
    /\ attempts = 1
    /\ password = GoodPw
    /\ creds = [pan |-> ThePan, password |-> GoodPw]

\* C14: the first detail page is navigated to only when every retained row
\* has been extracted into a record, and from then on the list of rows and
\* the list of records keep their length: no row is read any more.
C14_ListMaterializedFirst ==
    /\ []((pc \in {"fetch_goto", "fetch_wait", "log"} \/ fetches # <<>>) =>
            /\ Len(bank_messages) = Len(messages)
            /\ phase # "enumerate"
            /\ pc \notin {"query_rows", "extract"})
    /\ [][fetches # <<>> =>
            /\ messages' = messages
            /\ table' = table
            /\ Len(bank_messages') = Len(bank_messages)]_vars

C14_Witness ==
    /\ pc = "fetch_wait"
    /\ fetches = <<1>>
    /\ Len(bank_messages) = 3

PhaseRank(p) ==
    CASE p = "login" -> 1
      [] p = "inbox" -> 2
      [] p = "enumerate" -> 3
      [] p = "fetch" -> 4
      [] p = "report" -> 5
      [] p = "release" -> 6

\* C15: the phases follow one another in the order login, inbox, enumerate,
\* fetch, report, release and never go back; the completion notice is
\* logged only when no error occurred and every enumerated record has been
\* fetched and emitted, and a run without error closes the browser only
\* after the notice.
C15_PhasesInOrder ==
    /\ [][PhaseRank(phase') >= PhaseRank(phase)]_vars
    /\ [](\A i \in 1..Len(navs) :
            /\ navs[i] = LOGIN_PAGE => i = 1
            /\ navs[i] = MAIL_PAGE => i = 2)
    /\ [](notice =>
            /\ err = NoErr
            /\ phase = "release"
            /\ Len(bank_messages) = Len(messages)
            /\ emitted = bank_messages
            /\ \A i \in 1..Len(emitted) : HasContent(emitted[i])
            /\ Len(navs) = 2 + Len(bank_messages))
    /\ []((browser = "closed" /\ err = NoErr) => notice)

C15_Witness ==
    /\ notice
    /\ pc = "ended"
    /\ Len(emitted) = 3

\* C16: when the wait for the message body times out in the fetch of the
\* k-th record the run is over: the k-th detail page was navigated to
\* once, the first k-1 records and no others are emitted, record k has no
\* content, no later record is fetched and no completion notice is logged.
C16_BodyTimeoutFatal ==
    (err = "TimeoutError" /\ phase = "fetch") =>
        LET k == Len(fetches)
        IN  /\ pc \in {"raised", "ended"}
            /\ k >= 1 /\ k = cur
            /\ Len(navs) = 2 + k
            /\ Len(emitted) = k - 1
            /\ \A i \in 1..(k - 1) : emitted[i] = bank_messages[i]
            /\ ~HasContent(bank_messages[k])
            /\ \A i \in (k + 1)..Len(bank_messages) :
                 ~HasContent(bank_messages[i])
            /\ ~notice

C16_Witness ==
    /\ pc = "ended"
    /\ err = "TimeoutError"
    /\ phase = "fetch"
    /\ Len(bank_messages) = 3
    /\ Len(fetches) = 2
    /\ Len(emitted) = 1

\* C17: when the wait for the inbox list container times out the run is
\* over: the mail-list address was navigated to once, no row was read, no
\* record built, no detail page fetched, nothing emitted and no completion
\* notice logged.
C17_InboxTimeoutFatal ==
    (err = "TimeoutError" /\ phase = "inbox") =>
        /\ pc \in {"raised", "ended"}
        /\ navs = <<LOGIN_PAGE, MAIL_PAGE>>
        /\ table = <<>> /\ messages = <<>> /\ bank_messages = <<>>
        /\ fetches = <<>>
        /\ emitted = <<>>
        /\ ~notice

C17_Witness ==
    /\ pc = "ended"
    /\ err = "TimeoutError"
    /\ phase = "inbox"
    /\ session = "Authenticated"

\* C18: the operator is asked for a password only while the keyring holds
\* none for the PAN; the password get_credentials checks and returns is
\* the one the keyring holds under the key of that PAN.
C18_ReturnedSecretIsStored ==
    /\ pc \in {"getpass", "confirm"} =>
         (keyring[PwKey(pan)] = None \/ keyring[PwKey(pan)] = "")
    /\ pc = "check_creds" => keyring[PwKey(pan)] = pw
    /\ pc \in {"submit", "wait_login"} =>
         keyring[PwKey(creds.pan)] = creds.password

C18_Witness ==
    /\ pc = "submit"
    /\ password = BadPw
    /\ creds.password = BadPw
    /\ keyring[PwKey(creds.pan)] = BadPw

\* reset_credentials has run to its end
ResetDone == unawaited >= 1

\* the PANs the next get_credentials can resolve without the keyring
FallbackPans == IF env = None \/ env = "" THEN PanInputs ELSE {env}

\* C19 as stated: after reset_credentials the next get_credentials finds
\* in the keyring neither a PAN nor a password for the PAN it resolves.
C19_NothingLeftInStore ==
    ResetDone =>
        /\ keyring[UnKey] = None
        /\ \A p \in FallbackPans : keyring[PwKey(p)] = None

\* C19: reset_credentials deletes the password entry of the submitted PAN
\* first and the PAN entry second and touches no other entry: when it has
\* run to its end the keyring holds neither, and when it raised the
\* password entry is gone all the same.
C19_ResetRemovesBoth ==
    /\ [](ResetDone =>
            /\ keyring[UnKey] = None
            /\ keyring[PwKey(creds.pan)] = None)
    /\ [](err = "PasswordDeleteError" => keyring[PwKey(creds.pan)] = None)
    /\ [][timeouts' # timeouts =>
            /\ keyring[PwKey(creds.pan)] = creds.password
            /\ \A k \in Keys \ {UnKey, PwKey(creds.pan)} :
                 keyring'[k] = keyring[k]]_vars

C19_Witness ==
    /\ ResetDone
    /\ creds.pan = ThePan
    /\ keyring[UnKey] = None
    /\ keyring[PwKey(ThePan)] = None
    /\ keyring[PwKey("")] = BadPw

\* C12: after two calls of set_content on a record its content is the
\* text of the second call, and after any number of calls the content is
\* the text of the last one while id, subject, sender and date are those
\* of the construction; no call raises.
C12_LastWriteWins ==
    (probe.kind = "record" /\ probe.writes # <<>>) =>
        /\ HasContent(probe.rec)
        /\ probe.rec.content = probe.writes[Len(probe.writes)]
        /\ DOMAIN probe.rec = DOMAIN probe.orig \cup {"content"}
        /\ \A f \in DOMAIN probe.orig : probe.rec[f] = probe.orig[f]
        /\ err = NoErr

C12_Witness ==
    /\ probe.kind = "record"
    /\ Len(probe.writes) = 2
    /\ probe.writes[1] # probe.writes[2]
    /\ probe.rec.content = probe.writes[2]

HasMarkup(s) == \E i \in 1..(Len(s) - 3) : SubSeq(s, i, i + 3) = BR

Newlines(s) == Cardinality({ i \in 1..Len(s) : s[i] = NL })

\* C13: the normalised text holds no line-break markup, each markup
\* sequence of the raw text having become one newline; a text without
\* markup is returned unchanged, and normalising twice gives what
\* normalising once gives.
C13_NormalizeIdempotent ==
    (probe.kind = "text" /\ probe.n >= 1) =>
        /\ ~HasMarkup(probe.out)
        /\ \E k \in 0..Len(probe.raw) :
             /\ Len(probe.out) = Len(probe.raw) - 3 * k
             /\ Newlines(probe.out) = Newlines(probe.raw) + k
             /\ k >= 1 <=> HasMarkup(probe.raw)
        /\ ~HasMarkup(probe.raw) => probe.out = probe.raw
        /\ probe.n = 2 => probe.out = probe.prev

C13_Witness ==
    /\ probe.kind = "text"
    /\ probe.n = 2
    /\ probe.raw = <<"<", "b">> \o BR \o <<"r", ">">>
    /\ probe.out = <<"<", "b", NL, "r", ">">>

====
